---- MODULE Spec2Model ----
(***************************************************************************)
(* Model of the bodeplot repository: the Pade approximation of a delay     *)
(* (src/pade.py), the combination of a plant with the approximant and the  *)
(* construction of the frequency response, as a module-level function      *)
(* (src/__BodePlots.py) and as the BodePlot class with its memoized        *)
(* bodefy method (src/bodeplot.py).                                        *)
(*                                                                         *)
(* Numbers.  Coefficients are exact rationals <<p, q>> with q > 0 in       *)
(* lowest terms; floating-point rounding is not modelled.  An optional     *)
(* value is a sequence of length at most one: <<>> is None / absent,       *)
(* <<x>> is the value x.  Coefficient vectors are sequences in descending  *)
(* powers; TLA+ index i is Python index i - 1.                             *)
(***************************************************************************)
EXTENDS Integers, Sequences, FiniteSets, TLC

\* args, ret: the arguments and the outcome of one call of a function
\*            (pade, add_timedelay, bodefy, the BodePlot constructor);
\* inst:      the BodePlot instances, by identity;
\* cache:     the lru_cache shared by every instance's bodefy method;
\* out:       the last bodefy() / plot() call on an instance and what it
\*            delivered;
\* solo:      per instance, the same instance run alone (the same operations
\*            on it, no other instance): its sys and the response its
\*            bodefy() / plot() delivers.  Alone it never leaves the cache,
\*            so both are the ones its construction produced.
\* ops:       the number of operations performed on BodePlot instances so far.
VARIABLES args, ret, inst, cache, out, solo, ops

vars == <<args, ret, inst, cache, out, solo, ops>>

\* ------------------------------------------------------------------ bounds
MaxT == 2
MaxN == 2
MaxLen == 2
MaxCoef == 1
MaxFreq == 2
MaxOps == 5

\* ------------------------------------------------------- optional values
None == <<>>
Some(x) == <<x>>
IsNone(o) == o = <<>>
Val(o) == o[1]

\* ---------------------------------------------------- rational arithmetic
Abs(i) == IF i < 0 THEN -i ELSE i

RECURSIVE Gcd(_, _)
Gcd(a, b) == IF b = 0 THEN a ELSE Gcd(b, a % b)

Norm(p, q) ==
    LET s == IF q < 0 THEN -1 ELSE 1
        g == Gcd(Abs(p), Abs(q))
    IN  <<(s * p) \div g, (s * q) \div g>>

R(i) == <<i, 1>>

\* Sums over the least common denominator, products with the common factors
\* cancelled crosswise first: the intermediate integers stay small.
RAdd(a, b) ==
    LET g == Gcd(a[2], b[2])
    IN  Norm(a[1] * (b[2] \div g) + b[1] * (a[2] \div g), (a[2] \div g) * b[2])
RNeg(a) == <<-a[1], a[2]>>
RSub(a, b) == RAdd(a, RNeg(b))
RMul(a, b) ==
    LET g == Gcd(Abs(a[1]), b[2])
        h == Gcd(Abs(b[1]), a[2])
    IN  Norm((a[1] \div g) * (b[1] \div h), (a[2] \div h) * (b[2] \div g))
RInv(b) == IF b[1] < 0 THEN <<-b[2], -b[1]>> ELSE <<b[2], b[1]>>
RDiv(a, b) == RMul(a, RInv(b))
RIsZero(a) == a[1] = 0

\* ------------------------------------------------------------ src/pade.py
\* Truthiness of the numdeg argument: None and 0 are falsy.
Falsy(o) == IsNone(o) \/ Val(o) = 0

\* Lines 34-37: the numerator degree the function works with.
ResolveNumdeg(n, numdeg) ==
    IF Falsy(numdeg) THEN n
    ELSE IF Val(numdeg) < 0 THEN Val(numdeg) + n
    ELSE Val(numdeg)

\* The checks without the upper bound on the numerator degree.
PadeErrorNoUpper(T, n, nd) ==
    IF ~(T >= 0) THEN "require T >= 0"
    ELSE IF ~(n >= 0) THEN "require n >= 0"
    ELSE IF ~(0 <= nd) THEN "require 0 <= numdeg <= n"
    ELSE ""

\* Lines 39-44: the three checks, in order; "" when all pass.
PadeError(T, n, nd) ==
    IF ~(T >= 0) THEN "require T >= 0"
    ELSE IF ~(n >= 0) THEN "require n >= 0"
    ELSE IF ~(0 <= nd /\ nd <= n) THEN "require 0 <= numdeg <= n"
    ELSE ""

\* One accumulation step of the numerator loop (line 56) and of the
\* denominator loop (line 64): the factor cn, cd is multiplied by at step k.
NumFactor(T, n, nd, k) == RDiv(RDiv(R(-T * (nd - k + 1)), R(nd + n - k + 1)), R(k))
DenFactor(T, n, nd, k) == RDiv(RDiv(R(T * (n - k + 1)), R(nd + n - k + 1)), R(k))

\* The numerator loop, lines 50-57: state (num, cn) before iteration k.
RECURSIVE NumLoop(_, _, _, _, _, _)
NumLoop(T, n, nd, k, cn, num) ==
    IF k > nd THEN num
    ELSE LET c == RMul(cn, NumFactor(T, n, nd, k))
         IN  NumLoop(T, n, nd, k + 1, c, [num EXCEPT ![nd - k + 1] = c])

\* The denominator loop, lines 59-65.
RECURSIVE DenLoop(_, _, _, _, _, _)
DenLoop(T, n, nd, k, cd, den) ==
    IF k > n THEN den
    ELSE LET c == RMul(cd, DenFactor(T, n, nd, k))
         IN  DenLoop(T, n, nd, k + 1, c, [den EXCEPT ![n - k + 1] = c])

\* The vector of zeros with its first entry set to 1 instead.
ZerosFirstOne(deg) == [i \in 1..(deg + 1) |-> IF i = 1 THEN R(1) ELSE R(0)]

\* Lines 50-51 and 59-60: a vector of zeros whose last entry is set to 1.
ZerosLastOne(deg) == [i \in 1..(deg + 1) |-> IF i = deg + 1 THEN R(1) ELSE R(0)]

NoVec == <<>>

\* pade(T, n, numdeg): [err, num, den]; err # "" is the ValueError raised.
pade(T, n, numdeg) ==
    LET nd == ResolveNumdeg(n, numdeg)
        e  == PadeError(T, n, nd)
    IN  IF e # "" THEN [err |-> e, num |-> NoVec, den |-> NoVec]
        ELSE IF T = 0 THEN [err |-> "", num |-> <<R(1)>>, den |-> <<R(1)>>]
        ELSE [err |-> "",
              num |-> NumLoop(T, n, nd, 1, R(1), ZerosLastOne(nd)),
              den |-> DenLoop(T, n, nd, 1, R(1), ZerosLastOne(n))]

\* ------------------------------------------------- numpy.poly1d, as used
\* np.poly1d(c) drops the leading zero coefficients of c and keeps [0] for
\* an all-zero (or empty) vector (src/__BodePlots.py lines 26-29).
RECURSIVE TrimFront(_)
TrimFront(v) ==
    IF v = <<>> THEN <<>>
    ELSE IF RIsZero(Head(v)) THEN TrimFront(Tail(v))
    ELSE v

RECURSIVE TrimBack(_)
TrimBack(v) ==
    IF v = <<>> THEN <<>>
    ELSE IF RIsZero(v[Len(v)]) THEN TrimBack(SubSeq(v, 1, Len(v) - 1))
    ELSE v

\* poly1d trimming zeros at both ends (trim_zeros' default) instead of the front.
poly1dTrimBoth(c) ==
    LET t == TrimBack(TrimFront(c)) IN IF t = <<>> THEN <<R(0)>> ELSE t

poly1d(c) ==
    LET t == TrimFront(c) IN IF t = <<>> THEN <<R(0)>> ELSE t

RECURSIVE RSum(_, _, _)
RSum(f, lo, hi) == IF lo > hi THEN R(0) ELSE RAdd(f[lo], RSum(f, lo + 1, hi))

Max(a, b) == IF a > b THEN a ELSE b
Min(a, b) == IF a < b THEN a ELSE b

\* Coefficient k (1-based) of the product of a and b: the cross-sum.
CrossSum(a, b, k) ==
    LET lo == Max(1, k + 1 - Len(b))
        hi == Min(k, Len(a))
        f  == [i \in lo..hi |-> RMul(a[i], b[k + 1 - i])]
    IN  RSum(f, lo, hi)

\* A convolution cut to the length of the longer factor (mode "same").
ConvolveSame(a, b) == [k \in 1..Max(Len(a), Len(b)) |-> CrossSum(a, b, k)]

\* The full convolution of two coefficient vectors.
Convolve(a, b) == [k \in 1..(Len(a) + Len(b) - 1) |-> CrossSum(a, b, k)]

\* poly1d * poly1d (lines 30-31): the convolution, wrapped in a poly1d again.
PolyMul(a, b) == poly1d(Convolve(a, b))

\* ------------------------------------- add_timedelay, function and method
\* Keyword arguments n and numdeg: absent (None) or given.
KwN(kw) == IF IsNone(kw.n) THEN 1 ELSE Val(kw.n)

\* The plant (tf_num, tf_den) times the approximant p (lines 26-32).
Combine(tf_num, tf_den, p) ==
    IF p.err # "" THEN [err |-> p.err, num |-> NoVec, den |-> NoVec]
    ELSE [err |-> "",
          num |-> PolyMul(poly1d(tf_num), poly1d(p.num)),
          den |-> PolyMul(poly1d(tf_den), poly1d(p.den))]

\* src/__BodePlots.py add_timedelay(tf_num, tf_den, td, **kwargs): every
\* keyword argument goes to pade.
add_timedelay(tf_num, tf_den, td, kw) ==
    Combine(tf_num, tf_den, pade(td, KwN(kw), kw.numdeg))

\* src/bodeplot.py BodePlot.add_timedelay(self): pade gets self.td and the
\* attribute n (1 when unset), nothing else.
BodePlot_add_timedelay(self) ==
    Combine(self.num, self.den, pade(Val(self.td), KwN(self), None))

\* ------------------------------------ scipy.signal, as used by bodefy
\* The frequency sweep: the code samples 10^6 frequencies in [0.01, 100]
\* (line 52); the model samples the frequencies 1..MaxFreq rad/s.
Sweep == 1..MaxFreq

AllZero(v) == \A i \in 1..Len(v) : RIsZero(v[i])

Scale(v, d) == [i \in 1..Len(v) |-> RDiv(v[i], d)]

\* TransferFunction without the check of the denominator: a zero denominator
\* passes through unnormalised.
TransferFunctionUnchecked(num, den) ==
    IF AllZero(den)
    THEN [err |-> "", sys |-> Some([num |-> poly1d(num), den |-> poly1d(den)])]
    ELSE LET d == TrimFront(den)
         IN  [err |-> "",
              sys |-> Some([num |-> poly1d(Scale(num, d[1])), den |-> Scale(d, d[1])])]

\* signal.TransferFunction(num, den) (lines 58, 60): raises for an all-zero
\* denominator; otherwise drops the denominator's leading zeros, divides both
\* vectors by its leading coefficient and drops the numerator's leading zeros.
TransferFunction(num, den) ==
    IF AllZero(den)
    THEN [err |-> "Denominator must have at least one nonzero element", sys |-> None]
    ELSE LET d == TrimFront(den)
         IN  [err |-> "",
              sys |-> Some([num |-> poly1d(Scale(num, d[1])), den |-> Scale(d, d[1])])]

\* A complex number is <<re, im>>, both rational.
CAddReal(z, c) == <<RAdd(z[1], c), z[2]>>
CTimesJw(z, w) == <<RMul(R(-w), z[2]), RMul(R(w), z[1])>>

\* The polynomial v at s = jw, by Horner's rule.
RECURSIVE Horner(_, _, _, _)
Horner(v, w, i, acc) ==
    IF i > Len(v) THEN acc
    ELSE Horner(v, w, i + 1, CAddReal(CTimesJw(acc, w), v[i]))

PolyVal(v, w) == Horner(v, w, 1, <<R(0), R(0)>>)

\* The complex gain N(jw) / D(jw); where D(jw) = 0 the division yields no
\* finite number (inf or nan, no exception).
Gain(sys, w) ==
    LET nv == PolyVal(sys.num, w)
        dv == PolyVal(sys.den, w)
        m  == RAdd(RMul(dv[1], dv[1]), RMul(dv[2], dv[2]))
    IN  IF RIsZero(m) THEN [finite |-> FALSE, re |-> R(0), im |-> R(0)]
        ELSE [finite |-> TRUE,
              re |-> RDiv(RAdd(RMul(nv[1], dv[1]), RMul(nv[2], dv[2])), m),
              im |-> RDiv(RSub(RMul(nv[2], dv[1]), RMul(nv[1], dv[2])), m)]

\* signal.bode(sys, freq_range) (line 62): one sample per frequency.  The
\* magnitude in dB and the unwrapped phase are functions of these gains.
bode(sys) == [w \in Sweep |-> Gain(sys, w)]

NoResp == <<>>

\* td is None or zero: no delay.
NoDelay(td) == IsNone(td) \/ Val(td) = 0

Failed(e) == [err |-> e, sys |-> None, resp |-> NoResp]

\* Lines 53-62 of bodefy once the model (num, den) is chosen.
Respond(tf) ==
    IF tf.err # "" THEN Failed(tf.err)
    ELSE [err |-> "", sys |-> tf.sys, resp |-> bode(Val(tf.sys))]

\* src/__BodePlots.py bodefy(num, den, td, **kwargs): [err, sys, resp].
bodefy(num, den, td, kw) ==
    IF NoDelay(td) THEN Respond(TransferFunction(num, den))
    ELSE LET padefy == add_timedelay(num, den, Val(td), kw)
         IN  IF padefy.err # "" THEN Failed(padefy.err)
             ELSE Respond(TransferFunction(padefy.num, padefy.den))

\* src/bodeplot.py BodePlot.bodefy(self), the body the cache wraps (lines
\* 42-52): [err, sys, resp]; sys is what self.sys is set to.
BodePlot_bodefy(self) ==
    IF NoDelay(self.td) THEN Respond(TransferFunction(self.num, self.den))
    ELSE LET padefy == BodePlot_add_timedelay(self)
         IN  IF padefy.err # "" THEN Failed(padefy.err)
             ELSE Respond(TransferFunction(padefy.num, padefy.den))

\* --------------------------------------- the lru_cache around bodefy
\* functools.lru_cache(maxsize=2) on the method (line 24): one cache for the
\* class, keyed by the instance (BodePlot defines neither __eq__ nor
\* __hash__, so by identity).  The cache is a sequence of [key, val], least
\* recently used first.
maxsize == 2

\* A lookup that takes the most recently used entry, whatever its key.
LookupAny(c, key) == IF c = <<>> THEN 0 ELSE Len(c)

\* The position of key in the cache, 0 when absent.
Lookup(c, key) ==
    IF \E j \in 1..Len(c) : c[j].key = key
    THEN CHOOSE j \in 1..Len(c) : c[j].key = key
    ELSE 0

Without(c, j) == SubSeq(c, 1, j - 1) \o SubSeq(c, j + 1, Len(c))

\* A hit moves the entry to the most recently used end.
Touch(c, j) == Append(Without(c, j), c[j])

\* A miss stores the result, evicting the least recently used entry of a
\* full cache.
Store(c, key, val) ==
    LET e == [key |-> key, val |-> val]
    IN  IF Len(c) >= maxsize THEN Append(Tail(c), e) ELSE Append(c, e)

\* ================================================================ SpecPade
\* One call pade(T, n, numdeg) on arguments drawn from the bounded sets.
PadeTs == -1..MaxT
PadeNs == -1..MaxN
PadeNumdegs == {None} \cup {Some(x) : x \in -(MaxN + 3)..(MaxN + 3)}

Idle == inst = <<>> /\ cache = <<>> /\ out = <<>> /\ solo = <<>> /\ ops = 0

InitPade ==
    /\ args \in [T : PadeTs, n : PadeNs, numdeg : PadeNumdegs]
    /\ ret = None
    /\ Idle

CallPade ==
    /\ IsNone(ret)
    /\ ret' = Some(pade(args.T, args.n, args.numdeg))
    /\ UNCHANGED <<args, inst, cache, out, solo, ops>>

NextPade == CallPade

SpecPade == InitPade /\ [][NextPade]_vars

\* The numerator degree as documented (pade's docstring, lines 13-16): None
\* means n, a negative value means n + numdeg, a value >= 0 means itself.
DocNumdeg(n, numdeg) ==
    IF IsNone(numdeg) THEN n
    ELSE IF Val(numdeg) < 0 THEN Val(numdeg) + n
    ELSE Val(numdeg)

PadeReturned == ~IsNone(ret) /\ Val(ret).err = ""
PadeRaised == ~IsNone(ret) /\ Val(ret).err # ""

\* C1 (as claimed): for T > 0, n >= 0 and a documented numerator degree in
\* [0, n], pade returns a numerator of (documented degree + 1) coefficients and
\* a denominator of n + 1 coefficients.
C1_Lengths ==
    (/\ ~IsNone(ret)
     /\ args.T > 0 /\ args.n >= 0
     /\ 0 <= DocNumdeg(args.n, args.numdeg)
     /\ DocNumdeg(args.n, args.numdeg) <= args.n)
    => /\ Val(ret).err = ""
       /\ Len(Val(ret).num) = DocNumdeg(args.n, args.numdeg) + 1
       /\ Len(Val(ret).den) = args.n + 1

\* C2: pade raises, returning no coefficients, exactly when T < 0, or n < 0,
\* or the numerator degree (a negative one resolved by adding n) is outside
\* [0, n]; T = 0 included.
C2_RaisesIff ==
    ~IsNone(ret) =>
        /\ PadeRaised <=>
              \/ args.T < 0
              \/ args.n < 0
              \/ ~(0 <= DocNumdeg(args.n, args.numdeg)
                   /\ DocNumdeg(args.n, args.numdeg) <= args.n)
        /\ PadeRaised => (Val(ret).num = NoVec /\ Val(ret).den = NoVec)
        /\ PadeReturned => (Len(Val(ret).num) >= 1 /\ Len(Val(ret).den) >= 1)

\* pade(1, 2, 5) has raised, and so has a call with T = 0 and a bad degree.
C2_Witness ==
    /\ PadeRaised
    /\ \/ (args.T = 1 /\ args.n = 2 /\ args.numdeg = Some(5))
       \/ (args.T = 0 /\ args.n = 1 /\ args.numdeg = Some(-2))

\* The running product after k accumulation steps, from the factor of each
\* step: 1 before the first step.
RECURSIVE NumProduct(_, _, _, _)
NumProduct(T, n, nd, k) ==
    IF k = 0 THEN R(1) ELSE RMul(NumProduct(T, n, nd, k - 1), NumFactor(T, n, nd, k))

RECURSIVE DenProduct(_, _, _, _)
DenProduct(T, n, nd, k) ==
    IF k = 0 THEN R(1) ELSE RMul(DenProduct(T, n, nd, k - 1), DenFactor(T, n, nd, k))

PadeComputed == PadeReturned /\ args.T > 0

\* Python position i of a vector.
At(v, i) == v[i + 1]

RunningProducts ==
    LET nd == ResolveNumdeg(args.n, args.numdeg)
        r  == Val(ret)
    IN  /\ \A k \in 1..nd : At(r.num, nd - k) = NumProduct(args.T, args.n, nd, k)
        /\ \A k \in 1..args.n : At(r.den, args.n - k) = DenProduct(args.T, args.n, nd, k)

\* C9 (as claimed): for T > 0 the coefficient fixed at 1 is the highest-degree
\* one (position 0) of the numerator and of the denominator, and position
\* degree - k holds the running product after k steps.
C9_HighestIsOne ==
    PadeComputed =>
        /\ At(Val(ret).num, 0) = R(1)
        /\ At(Val(ret).den, 0) = R(1)
        /\ RunningProducts

\* C9 (amended): for T > 0 the coefficient fixed at 1 is the constant term,
\* the last position (degree) of the numerator and of the denominator, and
\* position degree - k (k = 1..degree) holds the running product after k steps.
C9_ConstantIsOne ==
    PadeComputed =>
        /\ At(Val(ret).num, Len(Val(ret).num) - 1) = R(1)
        /\ At(Val(ret).den, Len(Val(ret).den) - 1) = R(1)
        /\ Len(Val(ret).num) = ResolveNumdeg(args.n, args.numdeg) + 1
        /\ Len(Val(ret).den) = args.n + 1
        /\ RunningProducts

\* A computed approximant of order 2 with a numerator of degree 1.
C9_Witness ==
    /\ PadeComputed
    /\ args.n = 2 /\ Len(Val(ret).num) = 2
    /\ At(Val(ret).num, 0) # R(1)

\* ================================================================= SpecMul
\* One call of add_timedelay, as the module-level function or as the method
\* of an object with the same fields, on a plant drawn from the vectors of at
\* most MaxLen coefficients in 0..MaxCoef.
Coefs == {R(c) : c \in 0..MaxCoef}
Vectors == UNION {[1..l -> Coefs] : l \in 1..MaxLen}
OptN == {None} \cup {Some(x) : x \in 0..MaxN}

InitMul ==
    /\ args \in [num : Vectors, den : Vectors, td : 0..MaxT, n : OptN, numdeg : OptN]
    /\ ret = None
    /\ Idle

Self(a) == [num |-> a.num, den |-> a.den, td |-> Some(a.td), n |-> a.n,
            numdeg |-> a.numdeg]

CallAddTimedelay ==
    /\ IsNone(ret)
    /\ ret' = Some([op |-> "function",
                    res |-> add_timedelay(args.num, args.den, args.td, args)])
    /\ UNCHANGED <<args, inst, cache, out, solo, ops>>

CallAddTimedelayMethod ==
    /\ IsNone(ret)
    /\ ret' = Some([op |-> "method", res |-> BodePlot_add_timedelay(Self(args))])
    /\ UNCHANGED <<args, inst, cache, out, solo, ops>>

NextMul == CallAddTimedelay \/ CallAddTimedelayMethod

SpecMul == InitMul /\ [][NextMul]_vars

MulReturned == ~IsNone(ret) /\ Val(ret).res.err = ""

\* The approximant the call multiplied the plant by.
UsedPade ==
    IF Val(ret).op = "function" THEN pade(args.td, KwN(args), args.numdeg)
    ELSE pade(args.td, KwN(args), None)

\* v without its leading zeros, one coefficient kept: w is a suffix of v,
\* everything before it is zero, and w starts with a nonzero coefficient
\* unless it is the last coefficient alone.
IsStripped(v, w) ==
    \E j \in 1..Len(v) :
        /\ w = SubSeq(v, j, Len(v))
        /\ \A i \in 1..(j - 1) : RIsZero(v[i])
        /\ (~RIsZero(v[j]) \/ j = Len(v))

LeadingZeros(v) == Cardinality({j \in 1..Len(v) : \A i \in 1..j : RIsZero(v[i])})

\* C3 (as claimed): with a zero delay add_timedelay returns (num, den), element
\* for element and with the same lengths, leading zeros included.
C3_IdentityExact ==
    (MulReturned /\ args.td = 0) =>
        /\ Val(ret).res.num = args.num
        /\ Val(ret).res.den = args.den

\* C3 (amended): with a zero delay add_timedelay returns num and den without
\* their leading zero coefficients (an all-zero vector becomes [0]); vectors
\* whose first coefficient is nonzero come back unchanged.
C3_IdentityStripped ==
    (MulReturned /\ args.td = 0) =>
        /\ IsStripped(args.num, Val(ret).res.num)
        /\ IsStripped(args.den, Val(ret).res.den)
        /\ ~RIsZero(args.num[1]) => Val(ret).res.num = args.num
        /\ ~RIsZero(args.den[1]) => Val(ret).res.den = args.den

\* A zero delay on a plant of two coefficients: one vector comes back as it
\* was, the other lost a leading zero.
C3_Witness ==
    /\ MulReturned /\ args.td = 0
    /\ Len(args.num) = 2 /\ Val(ret).res.num = args.num
    /\ Len(args.den) = 2 /\ Len(Val(ret).res.den) = 1

\* C4 (as claimed): the result has len(num) + len(pnum) - 1 numerator and
\* len(den) + len(pden) - 1 denominator coefficients, whatever the vectors.
C4_LengthLaw ==
    MulReturned =>
        /\ Len(Val(ret).res.num) = Len(args.num) + Len(UsedPade.num) - 1
        /\ Len(Val(ret).res.den) = Len(args.den) + Len(UsedPade.den) - 1

StrippedLen(v) == IF LeadingZeros(v) = Len(v) THEN 1 ELSE Len(v) - LeadingZeros(v)

ProductLen(v, p) ==
    IF LeadingZeros(v) = Len(v) THEN 1 ELSE StrippedLen(v) + Len(p) - 1

\* C4 (amended): leading zeros of the plant are not kept: the result has
\* L(num) + len(pnum) - 1 numerator coefficients, L(num) the length of num
\* without its leading zeros, and a single coefficient when num is all zeros;
\* the same for the denominator.  No other term is dropped.
C4_LengthLawStripped ==
    MulReturned =>
        /\ Len(Val(ret).res.num) = ProductLen(args.num, UsedPade.num)
        /\ Len(Val(ret).res.den) = ProductLen(args.den, UsedPade.den)

\* A plant of two coefficients without leading zero times an approximant of
\* order 2: the lengths add up.
C4_Witness ==
    /\ MulReturned /\ args.td > 0 /\ args.n = Some(2)
    /\ Len(args.num) = 2 /\ Len(args.den) = 2
    /\ Len(Val(ret).res.den) = 4
    /\ Len(Val(ret).res.num) = Len(UsedPade.num) + 1

\* =============================================================== SpecBuild
\* One model built from (num, den, td, n, numdeg): by the module-level bodefy,
\* or by constructing a BodePlot (whose constructor runs bodefy on the new
\* object, a miss of the cache).  Numerators have coefficients 0 and 1,
\* denominators coefficients in 0..MaxCoef.
UnitVectors == UNION {[1..l -> {R(0), R(1)}] : l \in 1..MaxLen}
OptT == {None} \cup {Some(x) : x \in 0..MaxT}
OptNumdeg == {None} \cup {Some(x) : x \in -1..MaxN}

InitBuild ==
    /\ args \in [num : UnitVectors, den : Vectors, td : OptT, n : OptN,
                 numdeg : OptNumdeg]
    /\ ret = None
    /\ Idle

\* The fields __init__ sets (lines 16-21).
NewObject(a) == [num |-> a.num, den |-> a.den, td |-> a.td, n |-> a.n,
                 numdeg |-> a.numdeg]

CallBodefy ==
    /\ IsNone(ret)
    /\ ret' = Some([op |-> "function",
                    res |-> bodefy(args.num, args.den, args.td, args)])
    /\ UNCHANGED <<args, inst, cache, out, solo, ops>>

CallBodePlot ==
    /\ IsNone(ret)
    /\ ret' = Some([op |-> "class", res |-> BodePlot_bodefy(NewObject(args))])
    /\ UNCHANGED <<args, inst, cache, out, solo, ops>>

NextBuild == CallBodefy \/ CallBodePlot

SpecBuild == InitBuild /\ [][NextBuild]_vars

Built == ~IsNone(ret) /\ Val(ret).res.err = ""
Delayed == ~IsNone(args.td) /\ Val(args.td) > 0

\* The caller's options are valid: n >= 0 and the documented numerator degree
\* lies in [0, n].
ValidOptions ==
    /\ 0 <= DocNumdeg(KwN(args), args.numdeg)
    /\ DocNumdeg(KwN(args), args.numdeg) <= KwN(args)

Degree(v) == StrippedLen(v) - 1

\* C5 (as claimed): with a nonzero delay and valid options n and m, either
\* entry point builds a model of numerator degree deg(num) + m and denominator
\* degree deg(den) + n, and the class builds what the function builds.
C5_HonoursOptions ==
    (/\ ~IsNone(ret) /\ Delayed /\ ValidOptions
     /\ ~AllZero(args.num) /\ ~AllZero(args.den))
    => /\ Built
       /\ Degree(Val(Val(ret).res.sys).num)
            = Degree(args.num) + DocNumdeg(KwN(args), args.numdeg)
       /\ Degree(Val(Val(ret).res.sys).den) = Degree(args.den) + KwN(args)
       /\ Val(ret).res = bodefy(args.num, args.den, args.td, args)

\* C6: a model whose denominator is all zeros is not built: the call raises,
\* without a response and without a system, with or without a delay, from
\* the function and from the constructor.
C6_ZeroDenominator ==
    (~IsNone(ret) /\ AllZero(args.den))
    => /\ Val(ret).res.err # ""
       /\ Val(ret).res.resp = NoResp
       /\ IsNone(Val(ret).res.sys)

\* den = [0, 0] with a valid delay of order 2 was refused by the constructor,
\* after the multiplication by the Pade denominator.
C6_Witness ==
    /\ ~IsNone(ret) /\ Val(ret).op = "class"
    /\ Len(args.den) = 2 /\ AllZero(args.den)
    /\ Delayed /\ args.n = Some(2)
    /\ Val(ret).res.err = "Denominator must have at least one nonzero element"

\* ================================================================ SpecBode
\* BodePlot instances a, b, c: constructed, their fields assigned, their
\* bodefy() and plot() called, in any order, up to MaxOps operations.
Ids == {"a", "b", "c"}
Earlier(i) == IF i = "a" THEN {} ELSE IF i = "b" THEN {"a"} ELSE {"a", "b"}
BNums == {<<R(1)>>, <<R(1), R(1)>>}
BDens == {<<R(1), R(1)>>, <<R(1), R(0)>>}
BTds == {None, Some(1)}
BNs == {None, Some(2)}

InitBode ==
    /\ args = None
    /\ ret = None
    /\ inst = [i \in Ids |-> None]
    /\ cache = <<>>
    /\ out = None
    /\ solo = [i \in Ids |-> None]
    /\ ops = 0

Fields(o) == [num |-> o.num, den |-> o.den, td |-> o.td, n |-> o.n,
              numdeg |-> o.numdeg]

\* BodePlot(denominator=den, time_delay=td) (lines 15-22), numerator left at
\* its default [1] and n unset: the fields are set, then bodefy runs on the
\* new object, a miss of the cache.  When it raises, no object comes to exist
\* and nothing is cached.  Instances come to exist in the order a, b, c.
Construct(i) ==
    /\ ops < MaxOps
    /\ IsNone(inst[i])
    /\ \A e \in Earlier(i) : ~IsNone(inst[e])
    /\ \E num \in {<<R(1)>>}, den \in BDens, td \in BTds, n \in {None} :
         LET self == [num |-> num, den |-> den, td |-> td, n |-> n, numdeg |-> None]
             r    == BodePlot_bodefy(self)
         IN  IF r.err # ""
             THEN UNCHANGED <<inst, cache, solo>>
             ELSE /\ inst' = [inst EXCEPT ![i] =
                                Some([num |-> num, den |-> den, td |-> td, n |-> n,
                                      numdeg |-> None, sys |-> r.sys])]
                  /\ cache' = Store(cache, i, r.resp)
                  /\ solo' = [solo EXCEPT ![i] = Some([sys |-> r.sys, val |-> r.resp])]
    /\ ops' = ops + 1
    /\ UNCHANGED <<args, ret, out>>

\* Assignments to the fields of an existing instance.
Assign(i) ==
    /\ ops < MaxOps
    /\ ~IsNone(inst[i])
    /\ \/ \E v \in BNums : inst' = [inst EXCEPT ![i] = Some([Val(inst[i]) EXCEPT !.num = v])]
       \/ \E v \in BDens : inst' = [inst EXCEPT ![i] = Some([Val(inst[i]) EXCEPT !.den = v])]
       \/ \E v \in BTds : inst' = [inst EXCEPT ![i] = Some([Val(inst[i]) EXCEPT !.td = v])]
       \/ \E v \in BNs : inst' = [inst EXCEPT ![i] = Some([Val(inst[i]) EXCEPT !.n = v])]
    /\ ops' = ops + 1
    /\ UNCHANGED <<args, ret, cache, out, solo>>

\* self.bodefy() through the cache (lines 24-52): a hit
\* returns the stored response and runs nothing; a miss runs the body, which
\* sets self.sys, and stores what it returns; an exception is not stored.
\* out records the call (the instance and its fields at the call) and what
\* it delivered.
CachedBodefy(i) ==
    LET self == Val(inst[i])
        j    == Lookup(cache, i)
        r    == BodePlot_bodefy(Fields(self))
        call == [id |-> i, at |-> Fields(self)]
    IN  IF j # 0
        THEN /\ cache' = Touch(cache, j)
             /\ out' = Some([call |-> call, err |-> "", resp |-> cache[j].val])
             /\ UNCHANGED inst
        ELSE IF r.err # ""
        THEN /\ out' = Some([call |-> call, err |-> r.err, resp |-> NoResp])
             /\ UNCHANGED <<inst, cache>>
        ELSE /\ inst' = [inst EXCEPT ![i] = Some([self EXCEPT !.sys = r.sys])]
             /\ cache' = Store(cache, i, r.resp)
             /\ out' = Some([call |-> call, err |-> "", resp |-> r.resp])

Bodefy(i) ==
    /\ ops < MaxOps
    /\ ~IsNone(inst[i])
    /\ CachedBodefy(i)
    /\ ops' = ops + 1
    /\ UNCHANGED <<args, ret, solo>>

\* plot() (lines 80-83) takes w, mag, phase from self.bodefy(); the drawing
\* is outside the model.
Plot(i) ==
    /\ ops < MaxOps
    /\ ~IsNone(inst[i])
    /\ CachedBodefy(i)
    /\ ops' = ops + 1
    /\ UNCHANGED <<args, ret, solo>>

NextBode == \E i \in Ids : Construct(i) \/ Assign(i) \/ Bodefy(i) \/ Plot(i)

SpecBode == InitBode /\ [][NextBode]_vars

Delivered == ~IsNone(out) /\ Val(out).err = ""
Caller == Val(out).call.id

\* C7 (as claimed): what bodefy() / plot() delivers is the response of the
\* instance's num, den, td and n at the time of the call.
C7_CurrentFields ==
    ~IsNone(out) =>
        LET fresh == BodePlot_bodefy(Val(out).call.at)
        IN  Val(out).err = fresh.err /\ Val(out).resp = fresh.resp

\* C8 (as claimed): what bodefy() / plot() delivers for an instance, and the
\* instance's sys, are what they are when the instance is run alone, whatever
\* other instances are constructed or evaluated in between.
C8_NoCrossCallState ==
    /\ \A i \in Ids : ~IsNone(inst[i]) => Val(inst[i]).sys = Val(solo[i]).sys
    /\ Delivered => Val(out).resp = Val(solo[Caller]).val

\* C10: the response bodefy() / plot() delivers for an instance is the
\* response of that instance's current sys, on a hit of the cache and on a
\* recomputation after eviction; every cached response is that of its
\* instance's sys.
C10_ResponseOfSys ==
    /\ Delivered => Val(out).resp = bode(Val(Val(inst[Caller]).sys))
    /\ \A j \in 1..Len(cache) :
         /\ ~IsNone(inst[cache[j].key])
         /\ cache[j].val = bode(Val(Val(inst[cache[j].key]).sys))

\* Instance a, evicted by b and c after its fields changed, was recomputed:
\* its sys is no longer the one it was constructed with.
C10_Witness ==
    /\ Delivered /\ Caller = "a"
    /\ Val(inst["a"]).sys # Val(solo["a"]).sys
    /\ Len(cache) = maxsize
    /\ ~IsNone(inst["c"])

====
